---- MODULE Spec2Model ----
(***************************************************************************)
(* Model of Landsat_Surface_Reflectance (src/Landsat_data_download.py).    *)
(*                                                                         *)
(* The function builds a lazy server-side query (line 68) and then issues  *)
(* blocking getInfo() round trips: the size query of the emptiness check   *)
(* (line 71), the size query of the loop bound (line 85), and per loop     *)
(* index a metadata fetch (line 87) and a point-sample fetch (line 101).   *)
(* Every round trip re-evaluates the query on the remote catalog as it is  *)
(* at that moment, so the catalog is a variable of the model and may       *)
(* change between round trips (CatalogUpdate).                             *)
(*                                                                         *)
(* Cells of the table are options: Null (None / NaN) or <<v>>.             *)
(***************************************************************************)
EXTENDS Integers, Sequences, FiniteSets, TLC

\* ------------------------------------------------------------------ bounds
NumImages   == 2   \* images the catalog can hold: ids 1..NumImages
MaxCloud    == 2   \* cloud-cover percentages range over 0..MaxCloud
MaxBands    == 2   \* longest bands argument
MaxFeatures == 2   \* most features one point sample returns
MaxUpdates  == 1   \* most catalog changes during one call

Null == <<>>
Some(v) == <<v>>

BandNames == {"SR_B4", "SR_B3"}
Range(s) == {s[k] : k \in 1..Len(s)}

\* bands arguments: the non-empty lists of distinct band names
BandLists ==
  {s \in UNION {[1..m -> BandNames] : m \in 1..MaxBands} :
     \A a, b \in 1..Len(s) : a # b => s[a] # s[b]}

ImageIds == 1..NumImages

\* ------------------------------------------------- the catalog's images
\* What the service holds about image k.
BandNo(b) == IF b = "SR_B4" THEN 4 ELSE 3
TimeOf(k)  == NumImages + 1 - k          \* acquisition day (system:time_start)
CloudOf(k) == (2 * (k - 1)) % (MaxCloud + 1)   \* CLOUD_COVER
MultOf(k)  == k + 1                      \* REFLECTANCE_MULT_BAND_2
AddOf(k)   == k % 2                      \* REFLECTANCE_ADD_BAND_2
RawOf(k, b) == 10 * k + BandNo(b)        \* raw pixel value of band b at the point
Covers(k, lon) == k # NumImages \/ lon = 0   \* footprint contains the point

MetaKeys == {"DATE_ACQUIRED", "CLOUD_COVER",
             "REFLECTANCE_MULT_BAND_2", "REFLECTANCE_ADD_BAND_2"}

VARIABLES
  longitude, latitude, start_date, end_date, bands, max_cloud_cover, \* arguments
  catalog,      \* the remote collection: a list of distinct image ids
  pc,           \* position in the function
  size1,        \* value of the size query at line 71 (an option)
  n, i,         \* loop bound of line 85 and loop index
  date, cloud_cover, M, A,   \* locals of the loop body
  df,           \* the table being built: [columns, rows, prov]
  result,       \* the returned table (an option)
  error,        \* the exception the call ended in (an option)
  fault,        \* bookkeeping: the failure an upstream step produced (an option)
  metaImg,      \* bookkeeping: image whose metadata the iteration read
  log,          \* bookkeeping: the round trips issued and returned, in order
  updates       \* bookkeeping: catalog changes so far

args == <<longitude, latitude, start_date, end_date, bands, max_cloud_cover>>
locals == <<date, cloud_cover, M, A>>
vars == <<args, catalog, pc, size1, n, i, locals, df, result, error, fault,
          metaImg, log, updates>>

\* ----------------------------------------------------------- the service
\* Line 68 without the cloud-cover filter.
MatchesNoCloud(k) ==
  /\ Covers(k, longitude)
  /\ start_date <= TimeOf(k) /\ TimeOf(k) < end_date

\* Line 68 with 'not_greater_than' in place of 'less_than'.
MatchesCloudLeq(k) ==
  /\ Covers(k, longitude)
  /\ start_date <= TimeOf(k) /\ TimeOf(k) < end_date
  /\ CloudOf(k) <= max_cloud_cover

\* Line 68: select(bands), filterBounds(point), filterDate(start, end) and
\* filterMetadata('CLOUD_COVER', 'less_than', max_cloud_cover).
Matches(k) ==
  /\ Covers(k, longitude)
  /\ start_date <= TimeOf(k) /\ TimeOf(k) < end_date
  /\ CloudOf(k) < max_cloud_cover

\* The query evaluated on a catalog: the matching images, in catalog order.
Filtered(cat) == SelectSeq(cat, Matches)

\* The properties dictionary of image k (line 87).
PropsOf(k) ==
  [key \in MetaKeys |->
     CASE key = "DATE_ACQUIRED" -> TimeOf(k)
       [] key = "CLOUD_COVER" -> CloudOf(k)
       [] key = "REFLECTANCE_MULT_BAND_2" -> MultOf(k)
       [] OTHER -> AddOf(k)]

\* Line 94: image.multiply(M).add(A), for band b of image k at the point.
Corrected(k, b, m, a) == RawOf(k, b) * m + a

\* Failures a round trip can end in (authentication, network, bad address).
UpstreamErrors == {[type |-> "EEException", arg |-> "upstream"]}
IndexError == [type |-> "EEException", arg |-> "index"]
KeyError(key) == [type |-> "KeyError", arg |-> key]

\* ------------------------------------------------------------ the table
\* Lines 73 and 79: pd.DataFrame(columns=['Date','Coordinate'] + bands + ['CloudCover'])
Columns == <<"Date", "Coordinate">> \o bands \o <<"CloudCover">>
NewFrame == [columns |-> Columns, rows |-> <<>>, prov |-> <<>>]
NoFrame == [columns |-> <<>>, rows |-> <<>>, prov |-> <<>>]
NoProv == [idx |-> 0 - 1, meta |-> 0, sample |-> 0]

ColIndex(cols, c) == CHOOSE j \in 1..Len(cols) : cols[j] = c

\* Line 75 as an append: every pass of the loop adds a row.
SetLocAppend(d, label, values) ==
  LET row == [c \in Range(d.columns) |-> values[ColIndex(d.columns, c)]]
  IN [d EXCEPT !.rows = Append(@, row), !.prov = Append(@, NoProv)]

\* Line 75: df.loc[label] = values. An existing label is overwritten, a new
\* one enlarges the table by one row.
SetLoc(d, label, values) ==
  LET row == [c \in Range(d.columns) |-> values[ColIndex(d.columns, c)]]
  IN IF label + 1 <= Len(d.rows)
       THEN [d EXCEPT !.rows[label + 1] = row]
       ELSE [d EXCEPT !.rows = Append(@, row), !.prov = Append(@, NoProv)]

NoneList(m) == [j \in 1..m |-> Null]

\* Lines 74-75: for i in range(len(columns)): loc[0] = [None] * len(columns)
RECURSIVE FillLoop(_, _)
FillLoop(d, k) ==
  IF k = 0 THEN d
  ELSE FillLoop(SetLoc(d, 0, NoneList(Len(d.columns))), k - 1)

\* Lines 73-76: the table of the zero-image branch.
EmptyBranch == FillLoop(NewFrame, Len(NewFrame.columns))

\* A Python dict as its items in insertion order.
DictKeys(dict) == {dict[j][1] : j \in 1..Len(dict)}
DictGet(dict, key) == dict[CHOOSE j \in 1..Len(dict) : dict[j][1] = key][2]
DictSet(dict, key, val) ==
  IF key \in DictKeys(dict)
    THEN [j \in 1..Len(dict) |-> IF dict[j][1] = key THEN <<key, val>> ELSE dict[j]]
    ELSE Append(dict, <<key, val>>)

RECURSIVE AddBands(_, _, _)
\* Lines 112-113: for band in bands: data_row[band] = properties[band]
AddBands(dict, props, j) ==
  IF j > Len(bands) THEN dict
  ELSE AddBands(DictSet(dict, bands[j], Some(props[bands[j]])), props, j + 1)

\* Lines 105-113: the row of one feature. point_of_interest['coordinates'] is
\* the point's own [longitude, latitude].
DataRow(props) ==
  AddBands(<< <<"Coordinate", Some(<<longitude, latitude>>)>>,
              <<"Date", Some(date)>>,
              <<"CloudCover", Some(cloud_cover)>> >>, props, 1)

\* Line 115 taking the columns from the row's dict (its insertion order).
AppendRowDictOrder(d, dict, p) ==
  LET cols == [j \in 1..Len(dict) |-> dict[j][1]]
      widen(r) == [c \in Range(cols) |-> IF c \in DOMAIN r THEN r[c] ELSE Null]
      row == [c \in Range(cols) |-> DictGet(dict, c)]
  IN [columns |-> cols,
      rows |-> Append([j \in 1..Len(d.rows) |-> widen(d.rows[j])], row),
      prov |-> Append(d.prov, p)]

\* Line 115 putting the new row first.
AppendRowFirst(d, dict, p) ==
  LET row == [c \in Range(d.columns) |->
                IF c \in DictKeys(dict) THEN DictGet(dict, c) ELSE Null]
  IN [columns |-> d.columns,
      rows |-> <<row>> \o d.rows,
      prov |-> <<p>> \o d.prov]

\* Line 115: df.append(data_row, ignore_index=True), as pandas versions that
\* have DataFrame.append do it. Keys that are no column yet become new columns
\* at the end; the row goes last.
AppendRow(d, dict, p) ==
  LET extra == SelectSeq([j \in 1..Len(dict) |-> dict[j][1]],
                         LAMBDA key : key \notin Range(d.columns))
      cols == d.columns \o extra
      widen(r) == [c \in Range(cols) |-> IF c \in DOMAIN r THEN r[c] ELSE Null]
      row == [c \in Range(cols) |->
                IF c \in DictKeys(dict) THEN DictGet(dict, c) ELSE Null]
  IN [columns |-> cols,
      rows |-> Append([j \in 1..Len(d.rows) |-> widen(d.rows[j])], row),
      prov |-> Append(d.prov, p)]

RECURSIVE AppendFeatures(_, _, _, _)
\* Lines 102-115: one row per feature of the sample, in order.
AppendFeatures(d, feats, j, p) ==
  IF j > Len(feats) THEN d
  ELSE AppendFeatures(AppendRow(d, DataRow(feats[j]), p), feats, j + 1, p)

\* ------------------------------------------------------------ the call
Event(ev, op, idx) == [ev |-> ev, op |-> op, i |-> idx]

\* A handler that swallows the exception and returns the rows built so far.
RaiseReturnsPartial(e) == pc' = "returned" /\ error' = Null /\ result' = Some(df)

\* No try/except anywhere: an exception ends the call and nothing is returned.
Raise(e) == pc' = "raised" /\ error' = Some(e) /\ result' = Null
Return(t) == pc' = "returned" /\ result' = Some(t) /\ error' = Null
Goto(l) == pc' = l /\ UNCHANGED <<error, result>>

Injective(s) == \A a, b \in 1..Len(s) : a # b => s[a] # s[b]
Catalogs ==
  {s \in UNION {[1..m -> ImageIds] : m \in 0..NumImages} : Injective(s)}

Init ==
  /\ longitude \in {0, 1} /\ latitude = 0
  /\ start_date \in 1..2 /\ end_date \in NumImages..(NumImages + 1)
  /\ bands \in BandLists
  /\ max_cloud_cover \in 0..(MaxCloud + 1)
  /\ catalog \in Catalogs
  /\ pc = "start"
  /\ size1 = Null /\ n = 0 /\ i = 0
  /\ date = 0 /\ cloud_cover = 0 /\ M = 0 /\ A = 0
  /\ df = NoFrame /\ result = Null /\ error = Null /\ fault = Null
  /\ metaImg = 0 /\ log = <<>> /\ updates = 0

\* The remote catalog changes between two round trips: an image is ingested
\* or withdrawn. landsat and image_list (lines 68, 82) are unevaluated
\* expressions, so the round trips that follow see the changed catalog.
CatalogUpdate ==
  /\ pc \notin {"start", "returned", "raised"}
  /\ updates < MaxUpdates
  /\ \/ \E k \in ImageIds \ Range(catalog), at \in 0..Len(catalog) :
          catalog' = SubSeq(catalog, 1, at) \o <<k>>
                       \o SubSeq(catalog, at + 1, Len(catalog))
     \/ \E at \in 1..Len(catalog) :
          catalog' = SubSeq(catalog, 1, at - 1)
                       \o SubSeq(catalog, at + 1, Len(catalog))
  /\ updates' = updates + 1
  /\ UNCHANGED <<args, pc, size1, n, i, locals, df, result, error, fault,
                 metaImg, log>>

\* Line 71: landsat.size().getInfo() is issued.
Size1Call ==
  /\ pc = "start"
  /\ log' = Append(log, Event("call", "size1", 0))
  /\ Goto("size1_wait")
  /\ UNCHANGED <<args, catalog, size1, n, i, locals, df, fault, metaImg, updates>>

\* Lines 71-79: the size query returns; zero images end the call with the
\* null row, otherwise the empty table of line 79 is created.
Size1Return ==
  /\ pc = "size1_wait"
  /\ log' = Append(log, Event("ret", "size1", 0))
  /\ \/ \E e \in UpstreamErrors :
          /\ fault' = Some(e) /\ Raise(e)
          /\ UNCHANGED <<size1, df>>
     \/ LET s == Len(Filtered(catalog)) IN
          /\ size1' = Some(s)
          /\ fault' = fault
          /\ IF s = 0
               THEN Return(EmptyBranch) /\ df' = df
               ELSE Goto("size2_call") /\ df' = NewFrame
  /\ UNCHANGED <<args, catalog, n, i, locals, metaImg, updates>>

\* Lines 82-85: image_list.size().getInfo() is issued.
Size2Call ==
  /\ pc = "size2_call"
  /\ log' = Append(log, Event("call", "size2", 0))
  /\ Goto("size2_wait")
  /\ UNCHANGED <<args, catalog, size1, n, i, locals, df, fault, metaImg, updates>>

\* Line 85: the loop bound.
Size2Return ==
  /\ pc = "size2_wait"
  /\ log' = Append(log, Event("ret", "size2", 0))
  /\ \/ \E e \in UpstreamErrors :
          /\ fault' = Some(e) /\ Raise(e)
          /\ UNCHANGED <<n, i>>
     \/ /\ n' = Len(Filtered(catalog)) /\ i' = 0
        /\ fault' = fault
        /\ Goto("loop")
  /\ UNCHANGED <<args, catalog, size1, locals, df, metaImg, updates>>

\* Lines 85 and 117: next iteration, or return df.
LoopTest ==
  /\ pc = "loop"
  /\ IF i < n THEN Goto("meta_call") ELSE Return(df)
  /\ UNCHANGED <<args, catalog, size1, n, i, locals, df, fault, metaImg, log,
                 updates>>

\* Lines 86-101 pipelined: the sample request leaves with the metadata request.
MetaCallPipelined ==
  /\ pc = "meta_call"
  /\ log' = log \o <<Event("call", "meta", i), Event("call", "sample", i)>>
  /\ Goto("meta_wait")
  /\ UNCHANGED <<args, catalog, size1, n, i, locals, df, fault, metaImg, updates>>

\* Lines 86-87: image.getInfo() is issued.
MetaCall ==
  /\ pc = "meta_call"
  /\ log' = Append(log, Event("call", "meta", i))
  /\ Goto("meta_wait")
  /\ UNCHANGED <<args, catalog, size1, n, i, locals, df, fault, metaImg, updates>>

\* Lines 87-91: the metadata arrives and the four properties are read.
MetaReturn ==
  /\ pc = "meta_wait"
  /\ log' = Append(log, Event("ret", "meta", i))
  /\ LET lst == Filtered(catalog) IN
     \/ \E e \in UpstreamErrors :
          /\ fault' = Some(e) /\ Raise(e)
          /\ UNCHANGED <<locals, metaImg>>
     \/ /\ i + 1 > Len(lst)
        /\ fault' = Some(IndexError) /\ Raise(IndexError)
        /\ UNCHANGED <<locals, metaImg>>
     \/ /\ i + 1 <= Len(lst)
        /\ \E key \in MetaKeys \ {"CLOUD_COVER"} :
             /\ fault' = Some(KeyError(key)) /\ Raise(KeyError(key))
        /\ UNCHANGED <<locals, metaImg>>
     \/ /\ i + 1 <= Len(lst)
        /\ LET properties == PropsOf(lst[i + 1]) IN
             /\ date' = properties["DATE_ACQUIRED"]
             /\ cloud_cover' = properties["CLOUD_COVER"]
             /\ M' = properties["REFLECTANCE_MULT_BAND_2"]
             /\ A' = properties["REFLECTANCE_ADD_BAND_2"]
        /\ metaImg' = lst[i + 1]
        /\ fault' = fault
        /\ Goto("sample_call")
  /\ UNCHANGED <<args, catalog, size1, n, i, df, updates>>

\* Lines 94-101: sampled_data.getInfo() is issued.
SampleCall ==
  /\ pc = "sample_call"
  /\ log' = Append(log, Event("call", "sample", i))
  /\ Goto("sample_wait")
  /\ UNCHANGED <<args, catalog, size1, n, i, locals, df, fault, metaImg, updates>>

\* Lines 101-115: the features arrive; one row is appended per feature.
SampleReturn ==
  /\ pc = "sample_wait"
  /\ log' = Append(log, Event("ret", "sample", i))
  /\ LET lst == Filtered(catalog) IN
     \/ \E e \in UpstreamErrors :
          /\ fault' = Some(e) /\ Raise(e)
          /\ UNCHANGED <<i, df>>
     \/ /\ i + 1 > Len(lst)
        /\ fault' = Some(IndexError) /\ Raise(IndexError)
        /\ UNCHANGED <<i, df>>
     \/ /\ i + 1 <= Len(lst)
        /\ \E nf \in 0..MaxFeatures :
             LET k == lst[i + 1]
                 feats == [j \in 1..nf |->
                             [b \in Range(bands) |-> Corrected(k, b, M, A)]]
             IN df' = AppendFeatures(df, feats, 1,
                        [idx |-> i, meta |-> metaImg, sample |-> k])
        /\ i' = i + 1
        /\ fault' = fault
        /\ Goto("loop")
  /\ UNCHANGED <<args, catalog, size1, n, locals, metaImg, updates>>

Next ==
  \/ Size1Call \/ Size1Return \/ Size2Call \/ Size2Return \/ LoopTest
  \/ MetaCall \/ MetaReturn \/ SampleCall \/ SampleReturn \/ CatalogUpdate

Spec == Init /\ [][Next]_vars

\* ------------------------------------------------------------ the claims
Returned == pc = "returned"
Table == result[1]
\* Every row the call holds: of the table being built and of the one returned.
AllRows ==
  Range(df.rows) \cup (IF result = Null THEN {} ELSE Range(result[1].rows))
DataRows == {r \in AllRows : r["CloudCover"] # Null}
InRange(k) ==
  Covers(k, longitude) /\ start_date <= TimeOf(k) /\ TimeOf(k) < end_date
NullRow(r) == \A c \in DOMAIN r : r[c] = Null

\* C1: when the size query of line 71 returns 0, the returned table has
\* exactly one row, and its Date, CloudCover and band cells are all null.
C1_SentinelRow ==
  (Returned /\ size1 = Some(0)) =>
     /\ Len(Table.rows) = 1
     /\ \A c \in {"Date", "CloudCover"} \cup Range(bands) : Table.rows[1][c] = Null

C1_Witness ==
  /\ Returned /\ size1 = Some(0)
  /\ Len(bands) >= 2 /\ Len(catalog) >= 1

\* C2: when exactly N >= 1 images satisfy the filters (and the catalog does
\* not change during the call), the returned table has exactly N rows, each
\* with a non-null Date, Coordinate and band values, whatever number of
\* features the point samples returned.
C2_OneRowPerImage ==
  (Returned /\ size1 # Some(0) /\ updates = 0) =>
     /\ Len(Table.rows) = Len(Filtered(catalog))
     /\ \A r \in Range(Table.rows) :
          \A c \in {"Date", "Coordinate"} \cup Range(bands) : r[c] # Null

\* C3: every band value of every row is raw * M + A with the raw value and
\* both coefficients taken from one and the same image.
C3_SameImageCoefficients ==
  \A r \in 1..Len(df.rows) : \A b \in Range(bands) :
     LET k == df.prov[r].sample
     IN df.rows[r][b] = Some(Corrected(k, b, MultOf(k), AddOf(k)))

\* C4: the CloudCover cell of every non-sentinel row is at most
\* max_cloud_cover.
C4_CloudCoverAtMost ==
  \A r \in DataRows : r["CloudCover"][1] <= max_cloud_cover

C4_Witness ==
  /\ Returned /\ DataRows # {}
  /\ \E k \in Range(catalog) : InRange(k) /\ CloudOf(k) > max_cloud_cover

\* C5: a failure of an upstream step ends the call in exactly that error and
\* no table is returned, also when rows were already built; and the call
\* ends in an error only when an upstream step failed.
C5_ErrorsPropagate ==
  /\ fault # Null => (pc = "raised" /\ error = fault /\ result = Null)
  /\ pc = "raised" => fault # Null

C5_Witness ==
  /\ pc = "raised" /\ Len(df.rows) >= 1
  /\ error = Some(KeyError("REFLECTANCE_ADD_BAND_2"))

\* C6: the table being built and the table returned, in the zero-image branch
\* and in the N-image branch alike, have the columns Date, Coordinate, the
\* bands in argument order, CloudCover, and every row has exactly these cells.
C6_ColumnSequence ==
  /\ df # NoFrame =>
       /\ df.columns = Columns
       /\ \A r \in Range(df.rows) : DOMAIN r = Range(Columns)
  /\ result # Null =>
       /\ Table.columns = Columns
       /\ \A r \in Range(Table.rows) : DOMAIN r = Range(Columns)

C6_Witness ==
  /\ Returned /\ size1 # Some(0)
  /\ Len(Table.rows) >= 2 /\ Len(bands) >= 2

\* C7: rows stand in loop order (a row of loop index i never follows a row
\* of a larger index), whatever the acquisition dates, and a step only
\* appends rows at the end: the rows held before it stay, in place.
RowsInOrder ==
  \A a, b \in 1..Len(df.prov) : a < b => df.prov[a].idx <= df.prov[b].idx
OnlyAppended ==
  /\ Len(df.rows) <= Len(df'.rows)
  /\ SubSeq(df'.rows, 1, Len(df.rows)) = df.rows
  /\ (pc' = "returned" /\ size1' # Some(0)) => result' = Some(df)
C7_IterationOrder == [](RowsInOrder) /\ [][OnlyAppended]_vars

C7_Witness ==
  /\ Returned /\ size1 # Some(0)
  /\ \E a, b \in 1..Len(Table.rows) :
       /\ a < b /\ Table.prov[a].idx < Table.prov[b].idx
       /\ Table.rows[a]["Date"][1] > Table.rows[b]["Date"][1]

\* C8: round trips are strictly sequential: a request is issued only after
\* the previous one has returned, an image's sample request directly follows
\* the return of its metadata, the next image's metadata request directly
\* follows the return of the previous sample, and a call that returns from
\* the loop has made both round trips for every index.
IsEvent(p, ev, op, idx) ==
  p \in 1..Len(log) /\ log[p] = Event(ev, op, idx)
C8_Sequential ==
  /\ \A p \in 1..Len(log) :
       /\ log[p].ev = "call" => (p = 1 \/ log[p - 1].ev = "ret")
       /\ log[p].ev = "ret" => IsEvent(p - 1, "call", log[p].op, log[p].i)
       /\ (log[p].ev = "call" /\ log[p].op = "sample") =>
             IsEvent(p - 1, "ret", "meta", log[p].i)
       /\ (log[p].ev = "call" /\ log[p].op = "meta" /\ log[p].i > 0) =>
             IsEvent(p - 1, "ret", "sample", log[p].i - 1)
  /\ (Returned /\ size1 # Some(0)) =>
       \A j \in 0..(n - 1) :
          /\ \E p \in 1..Len(log) : IsEvent(p, "ret", "meta", j)
          /\ \E p \in 1..Len(log) : IsEvent(p, "ret", "sample", j)

C8_Witness ==
  /\ Returned /\ n >= 2
  /\ \E p \in 1..Len(log) : IsEvent(p, "ret", "sample", 1)

C10_NeverEmpty == Returned => Len(Table.rows) >= 1

====
